---- MODULE Spec2Model ----
(***************************************************************************)
(* A model of qa-framework-gen (the `qfg` command line tool): the name     *)
(* normaliser, the configuration model and the generation orchestrator     *)
(* (init / add-page / add-test) acting on a project directory.             *)
(*                                                                         *)
(* Text is modelled as a sequence of one-character strings, so that        *)
(* concatenation, substring search, stripping and case conversion are      *)
(* computed the way the Python code computes them.                         *)
(***************************************************************************)
EXTENDS Integers, Sequences, FiniteSets, TLC

VARIABLES
    nm,     \* name normaliser run: the input text and the values derived from it
    cf,     \* configuration model run: context, manifest mapping, parse outcome
    fs,     \* the filesystem: one entry per project directory under the destination
    last    \* the command that ran last, its arguments and its outcome

vars == <<nm, cf, fs, last>>

----------------------------------------------------------------------------
(* Bounds of the model *)

\* longest enumerated input text of the name normaliser
MaxTextLen == 3

\* commands run in one behaviour of the orchestrator
MaxCmds == 3

\* readings of the wall clock (datetime.now) a run can see
MaxClock == 2

----------------------------------------------------------------------------
(* Text helpers *)

Lowers == <<"a", "b", "c", "d", "e", "f", "g", "h", "i", "j", "k", "l", "m", "n", "o", "p", "q", "r", "s", "t", "u", "v", "w", "x", "y", "z">>
Uppers == <<"A", "B", "C", "D", "E", "F", "G", "H", "I", "J", "K", "L", "M", "N", "O", "P", "Q", "R", "S", "T", "U", "V", "W", "X", "Y", "Z">>
Digits == <<"0", "1", "2", "3", "4", "5", "6", "7", "8", "9">>

Range(s) == { s[i] : i \in DOMAIN s }

LowerSet == Range(Lowers)
UpperSet == Range(Uppers)
AlnumSet == LowerSet \cup UpperSet \cup Range(Digits)

\* the character class [a-zA-Z0-9] of the regular expressions
IsAlnum(c) == c \in AlnumSet

\* str.lower() / str.upper() on one character
LowerChar(c) ==
    IF c \in UpperSet THEN Lowers[CHOOSE i \in DOMAIN Uppers : Uppers[i] = c] ELSE c

UpperChar(c) ==
    IF c \in LowerSet THEN Uppers[CHOOSE i \in DOMAIN Lowers : Lowers[i] = c] ELSE c

\* str.lower()
Lower(s) == [i \in DOMAIN s |-> LowerChar(s[i])]

\* str.replace(a, b) for single characters a, b
ReplaceChar(s, a, b) == [i \in DOMAIN s |-> IF s[i] = a THEN b ELSE s[i]]

\* str.startswith / str.endswith
StartsWith(s, p) == Len(p) <= Len(s) /\ SubSeq(s, 1, Len(p)) = p
EndsWith(s, p) == Len(p) <= Len(s) /\ SubSeq(s, Len(s) - Len(p) + 1, Len(s)) = p

\* the `in` operator on strings: p occurs somewhere in s
Contains(s, p) ==
    \E i \in 1..(Len(s) - Len(p) + 1) : SubSeq(s, i, i + Len(p) - 1) = p

\* str.lstrip(c), str.rstrip(c), str.strip(c) for one character c
RECURSIVE LStripChar(_, _)
LStripChar(s, c) ==
    IF s # <<>> /\ Head(s) = c THEN LStripChar(Tail(s), c) ELSE s

RECURSIVE RStripChar(_, _)
RStripChar(s, c) ==
    IF s # <<>> /\ s[Len(s)] = c THEN RStripChar(SubSeq(s, 1, Len(s) - 1), c) ELSE s

StripChar(s, c) == RStripChar(LStripChar(s, c), c)

\* the text with its leading run of non-alphanumeric characters removed
RECURSIVE DropSeparators(_)
DropSeparators(s) ==
    IF s # <<>> /\ ~IsAlnum(Head(s)) THEN DropSeparators(Tail(s)) ELSE s

\* re.sub(r"[^a-zA-Z0-9]+", "-", value): every maximal run becomes one hyphen
RECURSIVE SubRuns(_)
SubRuns(s) ==
    IF s = <<>> THEN <<>>
    ELSE IF IsAlnum(Head(s)) THEN <<Head(s)>> \o SubRuns(Tail(s))
    ELSE <<"-">> \o SubRuns(DropSeparators(s))

\* re.split(r"[^a-zA-Z0-9]+", value): the pieces between the runs, empty ones included
RECURSIVE SplitFrom(_, _)
SplitFrom(s, cur) ==
    IF s = <<>> THEN <<cur>>
    ELSE IF IsAlnum(Head(s)) THEN SplitFrom(Tail(s), Append(cur, Head(s)))
    ELSE <<cur>> \o SplitFrom(DropSeparators(s), <<>>)

Split(s) == SplitFrom(s, <<>>)

\* str.capitalize(): first character upper-cased, the rest lower-cased
Capitalize(t) ==
    IF t = <<>> THEN <<>> ELSE <<UpperChar(t[1])>> \o Lower(Tail(t))

\* "".join(seq of texts)
RECURSIVE Join(_)
Join(ts) == IF ts = <<>> THEN <<>> ELSE Head(ts) \o Join(Tail(ts))

s_project == <<"p", "r", "o", "j", "e", "c", "t">>
s_Page == <<"P", "a", "g", "e">>

----------------------------------------------------------------------------
(* Name normaliser: cli/__init__.py *)

\* a slip in the order of the calls: the hyphens are stripped before the
\* substitution instead of after it
SlugifyStripFirst(value) ==
    LET slug == Lower(SubRuns(StripChar(value, "-")))
    IN  IF slug = <<>> THEN s_project ELSE slug

\* the call of lower() left out
SlugifyKeepsCase(value) ==
    LET slug == StripChar(SubRuns(value), "-")
    IN  IF slug = <<>> THEN s_project ELSE slug

_slugify(value) ==
    LET slug == Lower(StripChar(SubRuns(value), "-"))
    IN  IF slug = <<>> THEN s_project ELSE slug

\* the replacement of the hyphens left out
PackageNameKeepsHyphens(value) == _slugify(value)

_package_name(value) == ReplaceChar(_slugify(value), "-", "_")

\* the test for the suffix left out: "Page" is appended in every case
ClassNameAlwaysSuffixed(value) ==
    LET tokens == Split(value)
        kept == SelectSeq(tokens, LAMBDA t : t # <<>>)
        name == Join([i \in DOMAIN kept |-> Capitalize(kept[i])])
    IN  name \o s_Page

_class_name(value) ==
    LET tokens == Split(value)
        kept == SelectSeq(tokens, LAMBDA t : t # <<>>)
        name == Join([i \in DOMAIN kept |-> Capitalize(kept[i])])
        named == IF name = <<>> THEN s_Page ELSE name
    IN  IF EndsWith(named, s_Page) THEN named ELSE named \o s_Page

----------------------------------------------------------------------------
(* Runs of the name normaliser on enumerated and sampled input *)

\* "é" stands for any character outside ASCII: the character classes are ASCII-only
Alphabet == {"a", "P", "1", "-", " ", "_", "é"}

Texts(n) == UNION { [1..k -> Alphabet] : k \in 0..n }

s_LoginPageName == <<"L", "o", "g", "i", "n", " ", "P", "a", "g", "e">>
s_Project == <<"P", "r", "o", "j", "e", "c", "t">>
s_loginPage == <<"l", "o", "g", "i", "n", "P", "a", "g", "e">>

SampleTexts ==
    { s_LoginPageName, s_project, s_Project, s_loginPage,
      <<"-", "-", "m", "y", " ", " ", "A", "p", "p", "!">>,
      <<"2", "f", "a", "_", "x">> }

NameInputs == Texts(MaxTextLen) \cup SampleTexts

NmIdle == [phase |-> "idle", text |-> <<>>, slug |-> <<>>, ident |-> <<>>,
           cls |-> <<>>, reslug |-> <<>>, reident |-> <<>>]

\* the three functions applied to the input text
Normalise ==
    /\ nm.phase = "input"
    /\ nm' = [nm EXCEPT !.phase = "normalised",
                        !.slug = _slugify(nm.text),
                        !.ident = _package_name(nm.text),
                        !.cls = _class_name(nm.text)]
    /\ UNCHANGED <<cf, fs, last>>

\* slugify and toIdentifier applied again, to their own output
Renormalise ==
    /\ nm.phase = "normalised"
    /\ nm' = [nm EXCEPT !.phase = "renormalised",
                        !.reslug = _slugify(nm.slug),
                        !.reident = _package_name(nm.ident)]
    /\ UNCHANGED <<cf, fs, last>>

----------------------------------------------------------------------------
(* Python values as the YAML codec and the dictionaries carry them *)

PyStr(chars) == [t |-> "str", v |-> chars]
PyBool(b) == [t |-> "bool", v |-> b]
PyList(items) == [t |-> "list", v |-> items]
PyMap(f) == [t |-> "map", v |-> f]
PyNone == [t |-> "none"]
\* a str drawn from a fixed vocabulary (driver type, browser identifier)
PyEnum(a) == [t |-> "enum", v |-> a]
\* the ISO text of a clock reading
PyTime(now) == [t |-> "time", v |-> now]

IsMap(x) == x.t = "map"

\* dict.get(key, default)
Get(m, key, default) == IF key \in DOMAIN m.v THEN m.v[key] ELSE default

\* truth value of a Python object
Truthy(x) ==
    CASE x.t = "none" -> FALSE
      [] x.t = "bool" -> x.v
      [] x.t = "str" -> x.v # <<>>
      [] x.t = "list" -> x.v # <<>>
      [] x.t = "map" -> DOMAIN x.v # {}
      [] x.t \in {"enum", "time"} -> TRUE

s_None == <<"N", "o", "n", "e">>
s_True == <<"T", "r", "u", "e">>
s_False == <<"F", "a", "l", "s", "e">>
s_EmptyList == <<"[", "]">>
s_EmptyDict == <<"{", "}">>
s_Ellipsis == <<".", ".", ".">>

\* str(x); the repr of a non-empty container is abbreviated, it is never empty
ToStr(x) ==
    CASE x.t = "str" -> x.v
      [] x.t = "none" -> s_None
      [] x.t = "bool" -> IF x.v THEN s_True ELSE s_False
      [] x.t = "list" -> IF x.v = <<>> THEN s_EmptyList ELSE <<"[">> \o s_Ellipsis \o <<"]">>
      [] x.t = "map" -> IF DOMAIN x.v = {} THEN s_EmptyDict ELSE <<"{">> \o s_Ellipsis \o <<"}">>

IsSpace(c) == c \in {" ", "\t", "\n"}

\* str.strip() with no argument: white space off both ends
RECURSIVE LStripSpace(_)
LStripSpace(s) == IF s # <<>> /\ IsSpace(Head(s)) THEN LStripSpace(Tail(s)) ELSE s

RECURSIVE RStripSpace(_)
RStripSpace(s) ==
    IF s # <<>> /\ IsSpace(s[Len(s)]) THEN RStripSpace(SubSeq(s, 1, Len(s) - 1)) ELSE s

StripSpace(s) == RStripSpace(LStripSpace(s))

----------------------------------------------------------------------------
(* Configuration model: models/config.py, utils/config_loader.py and the    *)
(* manifest writer of cli/__init__.py                                      *)

FeatureNames ==
    {"docker", "ci_cd", "allure", "quality_tools", "pre_commit", "parallel",
     "flaky_retry", "api_testing"}

s_automation_project == <<"a", "u", "t", "o", "m", "a", "t", "i", "o", "n", "-", "p", "r", "o", "j", "e", "c", "t">>
s_chrome == <<"c", "h", "r", "o", "m", "e">>
s_generator == <<"q", "a", "-", "f", "r", "a", "m", "e", "w", "o", "r", "k", "-", "g", "e", "n">>

\* the context dictionary init builds from its arguments and prompt answers:
\* one key per selected feature, set to True
InitContext(name, base_url, driver_type, browsers, features) ==
    [project_name |-> name,
     project_slug |-> _package_name(name),
     project_package |-> _package_name(name),
     base_url |-> RStripChar(base_url, "/"),
     driver_type |-> driver_type,
     browsers |-> browsers,
     enabled |-> features]

\* a slip of the key: the directory name is persisted as the project name
GenerateConfigSlugAsName(context, now) ==
    PyMap([framework |-> PyMap([version |-> PyStr(<<"1", ".", "0", ".", "0">>),
                                generator |-> PyStr(s_generator),
                                created |-> PyTime(now)]),
           project |-> PyMap([name |-> PyStr(context.project_slug),
                              base_url |-> PyStr(context.base_url)]),
           driver |-> PyMap([type |-> PyEnum(context.driver_type),
                             browsers |-> PyList([i \in DOMAIN context.browsers |-> PyEnum(context.browsers[i])])]),
           features |-> PyMap([f \in FeatureNames |-> PyBool(f \in context.enabled)]),
           settings |-> PyMap([logging_mode |-> PyStr(<<"j", "s", "o", "n">>),
                               test_data_format |-> PyStr(<<"y", "a", "m", "l">>),
                               playwright_async |-> PyBool(TRUE)])])

\* the mapping _generate_config dumps into .framework-config.yml
_generate_config(context, now) ==
    PyMap([framework |-> PyMap([version |-> PyStr(<<"1", ".", "0", ".", "0">>),
                                generator |-> PyStr(s_generator),
                                created |-> PyTime(now)]),
           project |-> PyMap([name |-> PyStr(context.project_name),
                              base_url |-> PyStr(context.base_url)]),
           driver |-> PyMap([type |-> PyEnum(context.driver_type),
                             browsers |-> PyList([i \in DOMAIN context.browsers |-> PyEnum(context.browsers[i])])]),
           features |-> PyMap([f \in FeatureNames |-> PyBool(f \in context.enabled)]),
           settings |-> PyMap([logging_mode |-> PyStr(<<"j", "s", "o", "n">>),
                               test_data_format |-> PyStr(<<"y", "a", "m", "l">>),
                               playwright_async |-> PyBool(TRUE)])])

Raised(error) == [ok |-> FALSE, error |-> error]
Returned(value) == [ok |-> TRUE, value |-> value]

\* ProjectConfig.from_mapping; data.get on anything but a mapping is an AttributeError
from_mapping(data) ==
    IF ~IsMap(data) THEN Raised("AttributeError")
    ELSE LET project_section == Get(data, "project", PyNone)
         IN  IF ~IsMap(project_section) THEN Raised("ValueError")
             ELSE LET name == ToStr(Get(project_section, "name", PyStr(s_automation_project)))
                      base_url == StripSpace(ToStr(Get(project_section, "base_url", PyStr(<<>>))))
                      default_browser ==
                          Lower(ToStr(Get(project_section, "default_browser", PyStr(s_chrome))))
                  IN  IF base_url = <<>> THEN Raised("ValueError")
                      ELSE Returned([name |-> name, base_url |-> base_url,
                                     default_browser |-> default_browser])

\* load_yaml: the parsed document, or {} when it is falsy
load_yaml(doc) == IF Truthy(doc) THEN doc ELSE PyMap(<<>>)

\* load_project_config on a path that holds `file` (a record: present, doc)
load_project_config(file) ==
    IF ~file.present THEN Raised("FileNotFoundError")
    ELSE from_mapping(load_yaml(file.doc))

----------------------------------------------------------------------------
(* Runs of the configuration model: a context serialised and parsed back,  *)
(* and hand-written documents loaded                                      *)

DriverTypes == {"selenium", "playwright", "both"}

Times == 1..MaxClock

s_url == <<"h", "t", "t", "p", ":", "/", "/", "x">>

\* what --base-url can be given as
RawBaseUrls == { s_url, s_url \o <<"/">>, s_url \o <<"/", "/">>, <<"/">>, <<" ">> \o s_url }

\* what the browser checkbox can return for selenium and both; playwright is fixed
BrowserAnswers(driver_type) ==
    IF driver_type \in {"selenium", "both"}
    THEN { <<>>, <<"chrome">>, <<"chrome", "firefox">>, <<"chrome", "firefox", "edge">> }
    ELSE { <<"chromium", "firefox", "webkit">> }

CfgNames == { <<"Q", "A">>, <<"m", "y", " ", "A", "p", "p">> }

Contexts ==
    { InitContext(n, u, d, b, f) :
        n \in CfgNames, u \in RawBaseUrls,
        d \in {"selenium", "both"}, b \in BrowserAnswers("both"), f \in SUBSET FeatureNames }
    \cup
    { InitContext(n, u, "playwright", b, f) :
        n \in CfgNames, u \in RawBaseUrls,
        b \in BrowserAnswers("playwright"), f \in SUBSET FeatureNames }

Absent == [t |-> "absent"]

\* a mapping holding the keys whose value is given
OptMap(pairs) ==
    LET keys == { p[1] : p \in { q \in pairs : q[2] # Absent } }
    IN  PyMap([k \in keys |-> (CHOOSE p \in pairs : p[1] = k)[2]])

ProjectSections ==
    { OptMap({<<"name", n>>, <<"base_url", u>>, <<"default_browser", b>>}) :
        n \in {Absent, PyStr(<<"Q", "A">>)},
        u \in {Absent, PyNone, PyStr(<<>>), PyStr(<<" ", "\n">>), PyStr(s_url),
               PyStr(<<" ">> \o s_url \o <<"\n">>)},
        b \in {Absent, PyStr(<<"F", "i", "r", "e", "f", "o", "x">>)} }

Documents ==
    { PyNone, PyList(<<>>), PyList(<<PyStr(<<"a">>)>>), PyStr(<<>>), PyStr(<<"h", "i">>),
      PyBool(FALSE), PyBool(TRUE) }
    \cup { OptMap({<<"project", p>>, <<"driver", d>>}) :
             p \in {Absent, PyNone, PyStr(s_url), PyList(<<PyStr(s_url)>>)} \cup ProjectSections,
             d \in {Absent, PyMap([type |-> PyEnum("selenium")])} }

ConfigFiles ==
    { [present |-> FALSE, doc |-> PyNone] } \cup { [present |-> TRUE, doc |-> d] : d \in Documents }

CfIdle == [phase |-> "idle", ctx |-> <<>>, file |-> <<>>, parsed |-> <<>>]

\* _generate_config: the context becomes the manifest document
Serialise ==
    /\ cf.phase = "context"
    /\ \E now \in Times :
         cf' = [cf EXCEPT !.phase = "serialised",
                          !.file = [present |-> TRUE, doc |-> _generate_config(cf.ctx, now)]]
    /\ UNCHANGED <<nm, fs, last>>

\* ProjectConfig.from_mapping on the manifest mapping
ParseBack ==
    /\ cf.phase = "serialised"
    /\ cf' = [cf EXCEPT !.phase = "parsed_back", !.parsed = from_mapping(cf.file.doc)]
    /\ UNCHANGED <<nm, fs, last>>

\* load_project_config on a configuration file
LoadProjectConfig ==
    /\ cf.phase = "document"
    /\ cf' = [cf EXCEPT !.phase = "loaded", !.parsed = load_project_config(cf.file)]
    /\ UNCHANGED <<nm, fs, last>>

----------------------------------------------------------------------------
(* The filesystem under the destination directory.  A project directory is *)
(* a record: whether it exists, the directories in it, and its files as a  *)
(* function from <<directory, file name>> to content.  File names are text, *)
(* so two artifacts share a file exactly when the names are equal.         *)

NoTree == [exists |-> FALSE, dirs |-> {}, files |-> <<>>]

\* any(target_dir.iterdir())
HasEntries(tree) == tree.dirs # {} \/ DOMAIN tree.files # {}

IsFile(tree, path) == path \in DOMAIN tree.files

\* Path.mkdir(exist_ok=True) of a directory directly under the project root
Mkdir(tree, d) == [tree EXCEPT !.exists = TRUE, !.dirs = @ \cup {d}]

\* Path.mkdir(parents=True, exist_ok=True) of tests/data
MkdirTestsData(tree) == [tree EXCEPT !.exists = TRUE, !.dirs = @ \cup {"tests", "tests/data"}]

\* Path.write_text into a directory that exists: the whole file is replaced
WriteText(tree, path, content) == [tree EXCEPT !.files = (path :> content) @@ @]

\* write_text raises FileNotFoundError when the directory of the file is missing
CanWrite(tree, path) == tree.exists /\ (path[1] = "" \/ path[1] \in tree.dirs)

Fixed(tpl) == [tpl |-> tpl]
Text(chars) == [tpl |-> "text", text |-> chars]

f_config == <<".", "f", "r", "a", "m", "e", "w", "o", "r", "k", "-", "c", "o", "n", "f", "i", "g", ".", "y", "m", "l">>
f_init == <<"_", "_", "i", "n", "i", "t", "_", "_", ".", "p", "y">>
f_base_page == <<"b", "a", "s", "e", "_", "p", "a", "g", "e", ".", "p", "y">>
f_example_page == <<"e", "x", "a", "m", "p", "l", "e", "_", "p", "a", "g", "e", ".", "p", "y">>
f_test_example == <<"t", "e", "s", "t", "_", "e", "x", "a", "m", "p", "l", "e", ".", "p", "y">>
f_test_example_pw == <<"t", "e", "s", "t", "_", "e", "x", "a", "m", "p", "l", "e", "_", "p", "w", ".", "p", "y">>
f_conftest == <<"c", "o", "n", "f", "t", "e", "s", "t", ".", "p", "y">>
f_pytest_ini == <<"p", "y", "t", "e", "s", "t", ".", "i", "n", "i">>
f_requirements == <<"r", "e", "q", "u", "i", "r", "e", "m", "e", "n", "t", "s", ".", "t", "x", "t">>
f_readme == <<"R", "E", "A", "D", "M", "E", ".", "m", "d">>
f_gitignore == <<".", "g", "i", "t", "i", "g", "n", "o", "r", "e">>
f_notes == <<"n", "o", "t", "e", "s", ".", "t", "x", "t">>

s_from == <<"f", "r", "o", "m", " ", ".">>
s_page_import == <<"_", "p", "a", "g", "e", " ", "i", "m", "p", "o", "r", "t", " ">>
s_page_py == <<"_", "p", "a", "g", "e", ".", "p", "y">>
s_test_ == <<"t", "e", "s", "t", "_">>
s_py == <<".", "p", "y">>
s_api_py == <<"_", "a", "p", "i", ".", "p", "y">>
s_pw_py == <<"_", "p", "w", ".", "p", "y">>
s_Test == <<"T", "e", "s", "t">>
s_API == <<"A", "P", "I">>
s_Playwright == <<"P", "l", "a", "y", "w", "r", "i", "g", "h", "t">>
s_base_import == <<"f", "r", "o", "m", " ", ".", "b", "a", "s", "e", "_", "p", "a", "g", "e", " ", "i", "m", "p", "o", "r", "t", " ", "B", "a", "s", "e", "P", "a", "g", "e">>
s_example_import == <<"f", "r", "o", "m", " ", ".", "e", "x", "a", "m", "p", "l", "e", "_", "p", "a", "g", "e", " ", "i", "m", "p", "o", "r", "t", " ", "E", "x", "a", "m", "p", "l", "e", "P", "a", "g", "e">>

\* str.replace(pat, rep) for a non-empty pattern
RECURSIVE ReplaceAll(_, _, _)
ReplaceAll(s, pat, rep) ==
    IF s = <<>> THEN <<>>
    ELSE IF StartsWith(s, pat) THEN rep \o ReplaceAll(SubSeq(s, Len(pat) + 1, Len(s)), pat, rep)
    ELSE <<Head(s)>> \o ReplaceAll(Tail(s), pat, rep)

----------------------------------------------------------------------------
(* Artifact writers of cli/__init__.py *)

\* a fallback configuration returned where None belongs
LoadConfigWithFallback(tree) ==
    IF IsFile(tree, <<"", f_config>>) THEN tree.files[<<"", f_config>>].doc
    ELSE PyMap([project |-> PyMap([base_url |-> PyStr(<<>>)]),
                driver |-> PyMap([type |-> PyEnum("selenium")]),
                features |-> PyMap(<<>>)])

\* _load_config: the parsed manifest, or None when the file is missing
_load_config(tree) ==
    IF IsFile(tree, <<"", f_config>>) THEN tree.files[<<"", f_config>>].doc ELSE PyNone

ImportLine(module_slug, class_name) ==
    s_from \o module_slug \o s_page_import \o class_name \o <<"\n">>

\* the block with the membership test dropped: the line is appended on every call
UpdateInitAlways(tree, pages_dir, module_slug, class_name) ==
    LET init_file == <<pages_dir, f_init>>
        import_line == ImportLine(module_slug, class_name)
    IN  IF IsFile(tree, init_file)
        THEN WriteText(tree, init_file, Text(tree.files[init_file].text \o import_line))
        ELSE WriteText(tree, init_file, Text(import_line))

\* the "Update __init__.py" block shared by the two page writers
UpdateInit(tree, pages_dir, module_slug, class_name) ==
    LET init_file == <<pages_dir, f_init>>
        import_line == ImportLine(module_slug, class_name)
    IN  IF IsFile(tree, init_file)
        THEN LET existing == tree.files[init_file].text
             IN  IF ~Contains(existing, StripSpace(import_line))
                 THEN WriteText(tree, init_file, Text(existing \o import_line))
                 ELSE tree
        ELSE WriteText(tree, init_file, Text(import_line))

PagePath(pages_dir, module_slug) == <<pages_dir, module_slug \o s_page_py>>

_create_selenium_page(tree, pages_dir, module_slug, class_name, display_name, url) ==
    LET content == [tpl |-> "selenium_page", class_name |-> class_name,
                    display_name |-> display_name, url |-> url]
        written == WriteText(tree, PagePath(pages_dir, module_slug), content)
    IN  UpdateInit(written, pages_dir, module_slug, class_name)

_create_playwright_page(tree, pages_dir, module_slug, class_name, display_name, url) ==
    LET content == [tpl |-> "playwright_page", class_name |-> class_name,
                    display_name |-> display_name, url |-> url]
        written == WriteText(tree, PagePath(pages_dir, module_slug), content)
    IN  UpdateInit(written, pages_dir, module_slug, class_name)

\* Test{class_name.replace("Page", "")}
TestClass(test_name) == s_Test \o ReplaceAll(_class_name(test_name), s_Page, <<>>)

_create_selenium_test(tree, tests_dir, module_slug, test_name) ==
    WriteText(tree, <<tests_dir, s_test_ \o module_slug \o s_py>>,
              [tpl |-> "selenium_test", test_class |-> TestClass(test_name),
               test_name |-> test_name, markers |-> {"selenium", "ui"}])

_create_playwright_test(tree, tests_dir, module_slug, test_name) ==
    WriteText(tree, <<tests_dir, s_test_ \o module_slug \o s_pw_py>>,
              [tpl |-> "playwright_test", test_class |-> TestClass(test_name) \o s_Playwright,
               test_name |-> test_name, markers |-> {"playwright", "ui", "asyncio"}])

_create_api_test(tree, tests_dir, module_slug, test_name, base_url) ==
    WriteText(tree, <<tests_dir, s_test_ \o module_slug \o s_api_py>>,
              [tpl |-> "api_test", test_class |-> TestClass(test_name) \o s_API,
               test_name |-> test_name, base_url |-> base_url, markers |-> {"api"}])

_create_selenium_base_page(tree, pages_dir) ==
    WriteText(tree, <<pages_dir, f_base_page>>, Fixed("selenium_base_page"))

_create_playwright_base_page(tree, pages_dir, base_url) ==
    WriteText(tree, <<pages_dir, f_base_page>>,
              [tpl |-> "playwright_base_page", base_url |-> base_url])

ExampleInitText == s_base_import \o <<"\n">> \o s_example_import \o <<"\n">>

_create_example_selenium_page(tree, pages_dir, base_url) ==
    WriteText(WriteText(tree, <<pages_dir, f_example_page>>,
                        [tpl |-> "example_selenium_page", base_url |-> base_url]),
              <<pages_dir, f_init>>, Text(ExampleInitText))

_create_example_playwright_page(tree, pages_dir, base_url) ==
    WriteText(WriteText(tree, <<pages_dir, f_example_page>>,
                        [tpl |-> "example_playwright_page", base_url |-> base_url]),
              <<pages_dir, f_init>>, Text(ExampleInitText))

_create_example_selenium_test(tree, tests_dir) ==
    WriteText(tree, <<tests_dir, f_test_example>>,
              [tpl |-> "example_selenium_test", markers |-> {"selenium", "ui", "smoke"}])

\* the playwright example test written under the file name of the selenium one
ExamplePlaywrightTestMisnamed(tree, tests_dir) ==
    WriteText(tree, <<tests_dir, f_test_example>>,
              [tpl |-> "example_playwright_test",
               markers |-> {"playwright", "ui", "smoke", "asyncio"}])

_create_example_playwright_test(tree, tests_dir) ==
    WriteText(tree, <<tests_dir, f_test_example_pw>>,
              [tpl |-> "example_playwright_test",
               markers |-> {"playwright", "ui", "smoke", "asyncio"}])

_create_selenium_conftest(tree, base_url) ==
    WriteText(tree, <<"", f_conftest>>, [tpl |-> "selenium_conftest", base_url |-> base_url])

_create_playwright_conftest(tree, base_url) ==
    WriteText(tree, <<"", f_conftest>>, [tpl |-> "playwright_conftest", base_url |-> base_url])

----------------------------------------------------------------------------
(* init *)

\* the check with the flag read the wrong way round
DirectoryConflictForceInverted(tree, force) == tree.exists /\ force /\ HasEntries(tree)

\* the directory check of init: the target exists, force is off, and it has entries
DirectoryConflict(tree, force) == tree.exists /\ ~force /\ HasEntries(tree)

\* the branch for both with one mkdir lost
DriverDirsBothLosesTestsPw(driver_type) ==
    CASE driver_type = "selenium" -> {"pages", "tests"}
      [] driver_type = "playwright" -> {"pages_pw", "tests_pw"}
      [] OTHER -> {"pages", "tests", "pages_pw"}

\* the branch for playwright with the mkdir of tests_pw lost
DriverDirsPlaywrightLosesTestsPw(driver_type) ==
    CASE driver_type = "selenium" -> {"pages", "tests"}
      [] driver_type = "playwright" -> {"pages_pw"}
      [] OTHER -> {"pages", "tests", "pages_pw", "tests_pw"}

\* the package directories init makes for a driver type
DriverDirs(driver_type) ==
    CASE driver_type = "selenium" -> {"pages", "tests"}
      [] driver_type = "playwright" -> {"pages_pw", "tests_pw"}
      [] OTHER -> {"pages", "tests", "pages_pw", "tests_pw"}

\* each of `candidates` that exists made anew: its files are gone and it holds an
\* empty __init__.py
WriteEmptyInitsInDirsMadeAnew(tree, candidates) ==
    LET present == { candidates[i] : i \in DOMAIN candidates } \cap tree.dirs
        kept == { path \in DOMAIN tree.files : path[1] \notin present }
        inits == { <<d, f_init>> : d \in present }
    IN  [tree EXCEPT !.files = [path \in kept \cup inits |->
                                  IF path \in inits THEN Text(<<>>) ELSE tree.files[path]]]

\* an empty __init__.py in each of `candidates` that exists
RECURSIVE WriteEmptyInits(_, _)
WriteEmptyInits(tree, candidates) ==
    IF candidates = <<>> THEN tree
    ELSE LET d == Head(candidates)
             next == IF d \in tree.dirs THEN WriteText(tree, <<d, f_init>>, Text(<<>>)) ELSE tree
         IN  WriteEmptyInits(next, Tail(candidates))

\* the testpaths line of pytest.ini and its declared markers
PytestIni(driver_type) ==
    [tpl |-> "pytest_ini",
     testpaths |-> IF driver_type = "both" THEN <<"tests", "tests_pw">> ELSE <<"tests">>,
     markers |-> {"smoke", "regression", "critical", "selenium", "playwright", "ui", "api"}]

\* every requirement line the generator can emit, in the order sorted() gives them
RequirementOrder ==
    << "allure-pytest>=2.13,<3", "playwright>=1.41,<2", "pytest-playwright>=0.4.4,<0.5",
       "pytest-retry>=1.5,<2", "pytest-xdist>=3.3,<4", "pytest>=7.4,<9", "pyyaml>=6.0,<7",
       "requests>=2.31,<3", "selenium>=4.14,<5", "structlog>=23.1,<25" >>

\* the requirements list as init appends to it
RequirementList(driver_type, features) ==
    <<"pytest>=7.4,<9">>
    \o (IF driver_type \in {"selenium", "both"} THEN <<"selenium>=4.14,<5">> ELSE <<>>)
    \o (IF driver_type \in {"playwright", "both"}
        THEN <<"playwright>=1.41,<2", "pytest-playwright>=0.4.4,<0.5">> ELSE <<>>)
    \o (IF "allure" \in features THEN <<"allure-pytest>=2.13,<3">> ELSE <<>>)
    \o (IF "parallel" \in features THEN <<"pytest-xdist>=3.3,<4">> ELSE <<>>)
    \o (IF "flaky_retry" \in features THEN <<"pytest-retry>=1.5,<2">> ELSE <<>>)
    \o (IF "api_testing" \in features THEN <<"requests>=2.31,<3">> ELSE <<>>)
    \o <<"structlog>=23.1,<25", "pyyaml>=6.0,<7">>

\* the characters of a requirement line
LineText(line) ==
    CASE line = "allure-pytest>=2.13,<3" ->
           <<"a", "l", "l", "u", "r", "e", "-", "p", "y", "t", "e", "s", "t", ">", "=", "2",
           ".", "1", "3", ",", "<", "3">>
      [] line = "playwright>=1.41,<2" ->
           <<"p", "l", "a", "y", "w", "r", "i", "g", "h", "t", ">", "=", "1", ".", "4", "1",
           ",", "<", "2">>
      [] line = "pytest-playwright>=0.4.4,<0.5" ->
           <<"p", "y", "t", "e", "s", "t", "-", "p", "l", "a", "y", "w", "r", "i", "g", "h",
           "t", ">", "=", "0", ".", "4", ".", "4", ",", "<", "0", ".", "5">>
      [] line = "pytest-retry>=1.5,<2" ->
           <<"p", "y", "t", "e", "s", "t", "-", "r", "e", "t", "r", "y", ">", "=", "1", ".",
           "5", ",", "<", "2">>
      [] line = "pytest-xdist>=3.3,<4" ->
           <<"p", "y", "t", "e", "s", "t", "-", "x", "d", "i", "s", "t", ">", "=", "3", ".",
           "3", ",", "<", "4">>
      [] line = "pytest>=7.4,<9" ->
           <<"p", "y", "t", "e", "s", "t", ">", "=", "7", ".", "4", ",", "<", "9">>
      [] line = "pyyaml>=6.0,<7" ->
           <<"p", "y", "y", "a", "m", "l", ">", "=", "6", ".", "0", ",", "<", "7">>
      [] line = "requests>=2.31,<3" ->
           <<"r", "e", "q", "u", "e", "s", "t", "s", ">", "=", "2", ".", "3", "1", ",", "<",
           "3">>
      [] line = "selenium>=4.14,<5" ->
           <<"s", "e", "l", "e", "n", "i", "u", "m", ">", "=", "4", ".", "1", "4", ",", "<",
           "5">>
      [] line = "structlog>=23.1,<25" ->
           <<"s", "t", "r", "u", "c", "t", "l", "o", "g", ">", "=", "2", "3", ".", "1", ",",
           "<", "2", "5">>

\* the characters the requirement lines are written in, in the order of their code points
CodePoints ==
    <<",", "-", ".", "0", "1", "2", "3", "4", "5", "6", "7", "9", "<", "=", ">", "a",
       "c", "d", "e", "g", "h", "i", "l", "m", "n", "o", "p", "q", "r", "s", "t",
       "u", "w", "x", "y">>

Code(c) == CHOOSE i \in DOMAIN CodePoints : CodePoints[i] = c

\* a < b for two str values: by code point, a proper prefix first
RECURSIVE TextLess(_, _)
TextLess(a, b) ==
    IF b = <<>> THEN FALSE
    ELSE IF a = <<>> THEN TRUE
    ELSE IF Head(a) = Head(b) THEN TextLess(Tail(a), Tail(b))
    ELSE Code(Head(a)) < Code(Head(b))

\* the list with one more line, put after the lines that are not greater
RECURSIVE Inserted(_, _)
Inserted(sorted, line) ==
    IF sorted = <<>> THEN <<line>>
    ELSE IF TextLess(LineText(line), LineText(Head(sorted))) THEN <<line>> \o sorted
    ELSE <<Head(sorted)>> \o Inserted(Tail(sorted), line)

\* the requirements written as they were appended
SortedLinesAsAppended(lines) == lines

\* sorted(requirements)
RECURSIVE SortedLines(_)
SortedLines(lines) ==
    IF lines = <<>> THEN <<>>
    ELSE Inserted(SortedLines(SubSeq(lines, 1, Len(lines) - 1)), lines[Len(lines)])

\* everything init does to the target directory once the directory check has passed
InitTree(tree, name, base_url, driver_type, browsers, features, now) ==
    LET context == InitContext(name, base_url, driver_type, browsers, features)
        made == [tree EXCEPT !.exists = TRUE]
        t1 == WriteText(made, <<"", f_config>>,
                        [tpl |-> "framework_config", doc |-> _generate_config(context, now)])
        t2 == MkdirTestsData([t1 EXCEPT !.dirs = @ \cup DriverDirs(driver_type)])
        t3 == WriteText(t2, <<"", f_init>>, Fixed("root_init"))
        t4 == WriteEmptyInits(WriteEmptyInits(t3, <<"pages", "pages_pw">>), <<"tests", "tests_pw">>)
        t5 == IF driver_type \in {"selenium", "both"}
              THEN _create_selenium_conftest(
                     _create_example_selenium_test(
                       _create_example_selenium_page(
                         _create_selenium_base_page(t4, "pages"), "pages", base_url),
                       "tests"),
                     base_url)
              ELSE t4
        t6 == IF driver_type \in {"playwright", "both"}
              THEN LET p == _create_example_playwright_test(
                              _create_example_playwright_page(
                                _create_playwright_base_page(t5, "pages_pw", base_url),
                                "pages_pw", base_url),
                              "tests_pw")
                   IN  IF driver_type = "playwright" THEN _create_playwright_conftest(p, base_url)
                       ELSE p
              ELSE t5
        t7 == WriteText(t6, <<"", f_pytest_ini>>, PytestIni(driver_type))
        t8 == WriteText(t7, <<"", f_requirements>>,
                        [tpl |-> "requirements",
                         lines |-> SortedLines(RequirementList(driver_type, features))])
        t9 == WriteText(t8, <<"", f_readme>>,
                        [tpl |-> "readme", name |-> name, base_url |-> base_url,
                         driver_type |-> driver_type])
    IN  WriteText(t9, <<"", f_gitignore>>, Fixed("gitignore"))

----------------------------------------------------------------------------
(* add-page and add-test *)

\* `if not config:` of add_page, add_test and add_locators
ConfigMissing(config) == ~Truthy(config)


\* the driver a command targets: the option, else the persisted type, else the answer
ResolveDriver(config, driver_opt, answer) ==
    LET config_driver == config.v["driver"].v["type"].v
    IN  IF driver_opt = "none"
        THEN (IF config_driver = "both" THEN answer ELSE config_driver)
        ELSE driver_opt

\* add_page and add_test ask for the driver only without --driver in a project for both
AsksDriver(config, driver_opt) ==
    driver_opt = "none" /\ config.v["driver"].v["type"].v = "both"

\* the base URL forgotten
FullUrlWithoutBase(base_url, url) == url

\* the test of the first character left out: every path is taken as relative
FullUrlAlwaysRelative(base_url, url) == base_url \o url

\* full_url of add_page
FullUrl(base_url, url) == IF StartsWith(url, <<"/">>) THEN base_url \o url ELSE url

Done(tree, outcome) == [tree |-> tree, outcome |-> outcome]

\* add_page past the configuration check, for the resolved driver and path
AddPageFiles(tree, page_name, url, driver) ==
    LET config == _load_config(tree)
        base_url == config.v["project"].v["base_url"].v
        full_url == FullUrl(base_url, url)
        class_name == _class_name(page_name)
        module_slug == ReplaceChar(_slugify(page_name), "-", "_")
        sel == IF driver \in {"selenium", "both"}
               THEN IF CanWrite(tree, PagePath("pages", module_slug))
                    THEN Done(_create_selenium_page(tree, "pages", module_slug, class_name,
                                                    page_name, full_url), "ok")
                    ELSE Done(tree, "FileNotFoundError")
               ELSE Done(tree, "ok")
    IN  IF sel.outcome # "ok" THEN sel
        ELSE IF driver \in {"playwright", "both"}
        THEN IF CanWrite(sel.tree, PagePath("pages_pw", module_slug))
             THEN Done(_create_playwright_page(sel.tree, "pages_pw", module_slug, class_name,
                                               page_name, full_url), "ok")
             ELSE Done(sel.tree, "FileNotFoundError")
        ELSE sel

\* api_enabled of add_test
ApiEnabled(config) == Truthy(Get(config.v["features"], "api_testing", PyBool(FALSE)))

\* the refusal lost
ApiNeverRefused(test_type, api_enabled) == FALSE

\* the refusal of an API test in a project without the feature
ApiRefused(test_type, api_enabled) == test_type = "api" /\ ~api_enabled

\* add_test past the configuration check, for the resolved test type and driver
AddTestFiles(tree, test_name, test_type, driver) ==
    LET config == _load_config(tree)
        module_slug == ReplaceChar(_slugify(test_name), "-", "_")
    IN  IF ApiRefused(test_type, ApiEnabled(config)) THEN Done(tree, "FeatureDisabled")
        ELSE IF test_type = "ui"
        THEN LET sel == IF driver \in {"selenium", "both"}
                        THEN IF CanWrite(tree, <<"tests", <<>>>>)
                             THEN Done(_create_selenium_test(tree, "tests", module_slug, test_name), "ok")
                             ELSE Done(tree, "FileNotFoundError")
                        ELSE Done(tree, "ok")
             IN  IF sel.outcome # "ok" THEN sel
                 ELSE IF driver \in {"playwright", "both"}
                 THEN IF CanWrite(sel.tree, <<"tests_pw", <<>>>>)
                      THEN Done(_create_playwright_test(sel.tree, "tests_pw", module_slug, test_name), "ok")
                      ELSE Done(sel.tree, "FileNotFoundError")
                 ELSE sel
        ELSE IF CanWrite(tree, <<"tests", <<>>>>)
             THEN Done(_create_api_test(tree, "tests", module_slug, test_name,
                                        config.v["project"].v["base_url"].v), "ok")
             ELSE Done(tree, "FileNotFoundError")

\* what a handler raises for an outcome: sys.exit(1) raises SystemExit, a failed
\* write_text raises FileNotFoundError, an OSError and so an Exception
RaisedBy(outcome) ==
    CASE outcome = "ok" -> "none"
      [] outcome \in {"DirectoryConflict", "ConfigNotFound", "FeatureDisabled"} -> "SystemExit"
      [] OTHER -> "Exception"

\* a main whose except clause reports the error and then returns 0
ExitCodeErrorSwallowed(outcome) ==
    IF RaisedBy(outcome) = "SystemExit" THEN 1 ELSE 0

\* the exit status of the process, sys.exit(main()): main returns 0 when the command
\* returns and 1 when it catches an Exception; SystemExit is no Exception, passes
\* through main and ends the process with its own code, 1
ExitCode(outcome) ==
    CASE RaisedBy(outcome) = "none" -> 0
      [] RaisedBy(outcome) = "Exception" -> 1
      [] OTHER -> 1

----------------------------------------------------------------------------
(* The orchestrator as a state machine: commands run one after another     *)
(* against the project directories under one destination directory.  An    *)
(* argument or answer the handler never reads on the path it takes is held *)
(* at one value, so that equal runs are not told apart.                    *)

\* two names of one project directory
ProjectNames == { <<"Q", "A">>, <<"q", "a", "!">> }
ProjectDirs == { _package_name(n) : n \in ProjectNames }

\* the base URL given and the features ticked, as pairs
InitAnswers ==
    { [base_url |-> s_url, features |-> {}],
      [base_url |-> s_url \o <<"/">>, features |-> {"api_testing", "allure"}] }

FsBrowsers(driver_type) ==
    IF driver_type \in {"selenium", "both"} THEN <<"chrome">>
    ELSE <<"chromium", "firefox", "webkit">>

s_base == <<"b", "a", "s", "e">>
PageNames == { s_LoginPageName, s_base }

TestNames == { <<"x">>, <<"x", " ", "a", "p", "i">> }

s_other_url == <<"h", "t", "t", "p", ":", "/", "/", "y">>

\* values of --url
UrlOptions == { s_other_url }
\* answers to the path question; "/" is its default
UrlAnswers == { <<"/">> }

DriverOpts == {"none", "selenium", "playwright", "both"}

\* a directory a user left behind: absent, empty, or holding a file of their own
LeftBehind ==
    { NoTree,
      [exists |-> TRUE, dirs |-> {}, files |-> <<>>],
      [exists |-> TRUE, dirs |-> {}, files |-> (<<"", f_notes>> :> Fixed("user_file"))] }

NoCommand ==
    [seq |-> 0, op |-> "none", dir |-> <<>>, name |-> <<>>, force |-> FALSE,
     url_opt |-> FALSE, url |-> <<>>, driver_opt |-> "none", driver |-> "none",
     type_opt |-> "none", test_type |-> "none", features |-> {}, outcome |-> "none",
     exit |-> 0, again |-> FALSE]

\* the fields of a command that are its arguments and answers
Arguments(cmd) ==
    <<cmd.op, cmd.dir, cmd.name, cmd.force, cmd.url_opt, cmd.url, cmd.driver_opt, cmd.driver,
      cmd.type_opt, cmd.test_type, cmd.features>>

\* the command as recorded: `again` says that the command before it was the same
Recorded(cmd) == [cmd EXCEPT !.again = (Arguments(cmd) = Arguments(last))]

Off == [NoCommand EXCEPT !.op = "off"]

CanRun == last.op # "off" /\ last.seq < MaxCmds

\* qfg init --name name --base-url base_url [--force], the prompts answered
\* with driver_type, browsers and features; Answers are the pairs of base URL and
\* features to draw from, and every selection of browsers is drawn when any_browsers
InitCommand(Answers, any_browsers) ==
    /\ CanRun
    /\ \E name \in ProjectNames, answers \in Answers, force \in BOOLEAN,
          driver_type \in DriverTypes :
         \E browsers \in (IF any_browsers THEN BrowserAnswers(driver_type)
                           ELSE { FsBrowsers(driver_type) }) :
         LET dir == _package_name(name)
             refused == DirectoryConflict(fs[dir], force)
             outcome == IF refused THEN "DirectoryConflict" ELSE "ok"
         IN  /\ refused => (/\ answers.features = {} /\ driver_type = "selenium"
                            /\ browsers = FsBrowsers(driver_type))
             /\ fs' = IF refused THEN fs
                      ELSE [fs EXCEPT ![dir] = InitTree(fs[dir], name, answers.base_url,
                                                        driver_type, browsers,
                                                        answers.features, last.seq + 1)]
             /\ last' = Recorded([NoCommand EXCEPT !.seq = last.seq + 1, !.op = "init", !.dir = dir,
                                          !.name = name, !.force = force,
                                          !.url = answers.base_url, !.driver = driver_type,
                                          !.features = answers.features,
                                          !.outcome = outcome, !.exit = ExitCode(outcome)])
    /\ UNCHANGED <<nm, cf>>

init == InitCommand(InitAnswers, FALSE)

\* the base URLs given to the first init of a session
s_slash == <<"/">>
WideBaseUrls == { s_url, s_url \o s_slash, s_url \o s_slash \o s_slash, s_slash, s_slash \o s_slash }

\* the features init reads after the manifest is written, and one (docker) of the
\* four that only the manifest records
WideFeatures == {"allure", "parallel", "flaky_retry", "api_testing", "docker"}

\* every base URL with every selection of these features
WideAnswers == [base_url : WideBaseUrls, features : SUBSET WideFeatures]

\* the first init of a session, over every answer the prompts take
init_first == last.seq = 0 /\ InitCommand(WideAnswers, TRUE)

\* qfg add-page page_name [--url url] [--driver driver_opt], run in project directory
\* dir; Options are the values of --url to draw from, Answers the answers to the path
\* question
AddPageCommand(Options, Answers) ==
    /\ CanRun
    /\ \E dir \in ProjectDirs, page_name \in PageNames, url_opt \in BOOLEAN,
          url \in Options \cup Answers, driver_opt \in DriverOpts, answer \in DriverTypes :
         LET config == _load_config(fs[dir])
             missing == ConfigMissing(config)
             driver == IF missing THEN driver_opt ELSE ResolveDriver(config, driver_opt, answer)
             res == IF missing THEN Done(fs[dir], "ConfigNotFound")
                    ELSE AddPageFiles(fs[dir], page_name, url, driver)
         IN  /\ url \in (IF url_opt THEN Options ELSE Answers)
             /\ (missing \/ ~AsksDriver(config, driver_opt)) => answer = "selenium"
             /\ missing => (/\ page_name = s_base /\ ~url_opt /\ driver_opt = "none"
                            /\ url = CHOOSE u \in Answers : \A v \in Answers : Len(u) <= Len(v))
             /\ fs' = [fs EXCEPT ![dir] = res.tree]
             /\ last' = Recorded([NoCommand EXCEPT !.seq = last.seq + 1, !.op = "add-page", !.dir = dir,
                                          !.name = page_name, !.url_opt = url_opt, !.url = url,
                                          !.driver_opt = driver_opt, !.driver = driver,
                                          !.outcome = res.outcome, !.exit = ExitCode(res.outcome)])
    /\ UNCHANGED <<nm, cf>>

add_page == AddPageCommand(UrlOptions, UrlAnswers)

\* paths given with --url or as the answer: relative, absolute, and the empty answer
s_login_path == <<"/", "l", "o", "g", "i", "n">>
WideUrls == { <<>>, s_slash, s_login_path, s_other_url }

\* the first command of a session, an init
init_once == last.seq = 0 /\ init

\* an add-page that follows it, over every path
add_page_next == last.seq = 1 /\ AddPageCommand(WideUrls, WideUrls)

\* qfg add-test test_name [--type type_opt] [--driver driver_opt], run in project directory dir
add_test ==
    /\ CanRun
    /\ \E dir \in ProjectDirs, test_name \in TestNames, type_opt \in {"none", "ui", "api"},
          type_answer \in {"ui", "api"}, driver_opt \in DriverOpts, answer \in DriverTypes :
         LET config == _load_config(fs[dir])
             missing == ConfigMissing(config)
             test_type == IF missing \/ type_opt # "none" THEN type_opt ELSE type_answer
             asks == ~missing /\ test_type = "ui" /\ AsksDriver(config, driver_opt)
             driver == IF missing \/ test_type # "ui" THEN driver_opt
                       ELSE ResolveDriver(config, driver_opt, answer)
             res == IF missing THEN Done(fs[dir], "ConfigNotFound")
                    ELSE AddTestFiles(fs[dir], test_name, test_type, driver)
         IN  /\ ~asks => answer = "selenium"
             /\ (missing \/ type_opt # "none") => type_answer = "ui"
             \* the type question offers API only when the feature is enabled
             /\ (~missing /\ type_opt = "none" /\ type_answer = "api") => ApiEnabled(config)
             /\ missing => (test_name = <<"x">> /\ type_opt = "none" /\ driver_opt = "none")
             /\ fs' = [fs EXCEPT ![dir] = res.tree]
             /\ last' = Recorded([NoCommand EXCEPT !.seq = last.seq + 1, !.op = "add-test", !.dir = dir,
                                          !.name = test_name, !.type_opt = type_opt,
                                          !.driver_opt = driver_opt, !.driver = driver,
                                          !.test_type = test_type,
                                          !.outcome = res.outcome, !.exit = ExitCode(res.outcome)])
    /\ UNCHANGED <<nm, cf>>

----------------------------------------------------------------------------
(* Specifications *)

FsInit ==
    /\ nm = NmIdle
    /\ cf = CfIdle
    /\ fs \in [ProjectDirs -> LeftBehind]
    /\ last = NoCommand

\* the orchestrator: every command
Init == FsInit

Next == init \/ add_page \/ add_test

Spec == Init /\ [][Next]_vars

\* init and add-page alone
PageNext == init \/ add_page

PageSpec == FsInit /\ [][PageNext]_vars

\* a generated selenium project whose manifest was edited by hand afterwards: the
\* features section holds no api_testing flag
HandEdited ==
    LET tree == InitTree(NoTree, <<"Q", "A">>, s_url, "selenium", FsBrowsers("selenium"), {}, 0)
    IN  [tree EXCEPT !.files[<<"", f_config>>].doc.v["features"] = PyMap(<<>>)]

\* init and add-test alone, also in a project with a hand-edited manifest
TestInit ==
    /\ nm = NmIdle
    /\ cf = CfIdle
    /\ fs \in [ProjectDirs -> LeftBehind \cup {HandEdited}]
    /\ last = NoCommand

TestNext == init \/ add_test

TestSpec == TestInit /\ [][TestNext]_vars

\* the name normaliser on its inputs
NamesInit ==
    /\ nm \in { [NmIdle EXCEPT !.phase = "input", !.text = t] : t \in NameInputs }
    /\ cf = CfIdle
    /\ fs = [d \in ProjectDirs |-> NoTree]
    /\ last = Off

NamesNext == Normalise \/ Renormalise

NamesSpec == NamesInit /\ [][NamesNext]_vars

\* an init and then an add-page, over every path
UrlNext == init_once \/ add_page_next

UrlSpec == FsInit /\ [][UrlNext]_vars

\* one init, over every answer
GenNext == init_first

GenSpec == FsInit /\ [][GenNext]_vars

\* the name normaliser on its inputs, and the commands that name files with it
ModuleInit == NamesInit \/ FsInit

ModuleNext == NamesNext \/ Next

ModuleSpec == ModuleInit /\ [][ModuleNext]_vars

\* the configuration model on contexts and on documents
ConfigInit ==
    /\ nm = NmIdle
    /\ cf \in { [CfIdle EXCEPT !.phase = "context", !.ctx = c] : c \in Contexts }
           \cup { [CfIdle EXCEPT !.phase = "document", !.file = f] : f \in ConfigFiles }
    /\ fs = [d \in ProjectDirs |-> NoTree]
    /\ last = Off

ConfigNext == Serialise \/ ParseBack \/ LoadProjectConfig

ConfigSpec == ConfigInit /\ [][ConfigNext]_vars

----------------------------------------------------------------------------
(* Properties of the name normaliser (NamesSpec) *)

Normalised == nm.phase \in {"normalised", "renormalised"}

HasAlnum(text) == \E i \in DOMAIN text : IsAlnum(text[i])

\* ^[a-z0-9]+(-[a-z0-9]+)*$
MatchesSlug(s) ==
    /\ s # <<>>
    /\ \A i \in DOMAIN s : s[i] \in LowerSet \cup Range(Digits) \cup {"-"}
    /\ s[1] # "-" /\ s[Len(s)] # "-"
    /\ \A i \in 1..(Len(s) - 1) : ~(s[i] = "-" /\ s[i + 1] = "-")

\* the alphanumeric characters of a text, in order
AlnumOnly(text) == SelectSeq(text, IsAlnum)

\* C9 as stated: the slug is "project" or matches the pattern, and it is "project"
\* exactly when the input holds no ASCII alphanumeric character.
C9_SlugProjectIffNoAlnum ==
    Normalised =>
        /\ nm.slug = s_project \/ MatchesSlug(nm.slug)
        /\ (nm.slug = s_project) <=> ~HasAlnum(nm.text)

\* C9 amended: the slug always matches the pattern (the literal "project" does too);
\* it is "project" whenever the input holds no ASCII alphanumeric character, and for
\* an input that holds one only when its alphanumeric characters, lower-cased, spell
\* "project".
C9_SlugShape ==
    Normalised =>
        /\ MatchesSlug(nm.slug)
        /\ ~HasAlnum(nm.text) => nm.slug = s_project
        /\ (HasAlnum(nm.text) /\ nm.slug = s_project) => Lower(AlnumOnly(nm.text)) = s_project

C9_Witness ==
    /\ nm.phase = "normalised"
    /\ HasAlnum(nm.text) /\ nm.text # s_project
    /\ nm.slug = s_project

\* C10: slugify applied to a slug returns the slug, and toIdentifier applied to an
\* identifier returns the identifier, the fallback "project" included.
C10_Idempotent ==
    nm.phase = "renormalised" => (nm.reslug = nm.slug /\ nm.reident = nm.ident)

C10_Witness ==
    /\ nm.phase = "renormalised"
    /\ Contains(nm.ident, <<"_">>)
    /\ nm.text # nm.slug /\ nm.text # nm.ident

----------------------------------------------------------------------------
(* Properties of the configuration model (ConfigSpec) *)

\* a configuration the data model calls valid: name, base URL and browsers non-empty
ValidContext(ctx) ==
    ctx.project_name # <<>> /\ StripSpace(ctx.base_url) # <<>> /\ ctx.browsers # <<>>

Recovers(value, field, original) == field \in DOMAIN value /\ value[field] = original

ShapeMet(doc) == IsMap(doc) /\ "project" \in DOMAIN doc.v /\ IsMap(doc.v["project"])

\* base_url is absent from the project section, or is text that is empty once trimmed
BaseUrlBlank(doc) ==
    LET section == doc.v["project"]
    IN  \/ "base_url" \notin DOMAIN section.v
        \/ section.v["base_url"].t = "str" /\ StripSpace(section.v["base_url"].v) = <<>>

\* C8: parse fails with the validation error (ValueError) whenever the document is not
\* a mapping holding a nested project mapping, or base_url is absent or blank; every
\* ProjectConfig it returns has a non-empty base_url.
C8_ValidationError ==
    (cf.phase = "loaded" /\ cf.file.present) =>
        /\ (~ShapeMet(cf.file.doc) \/ BaseUrlBlank(cf.file.doc)) =>
             (~cf.parsed.ok /\ cf.parsed.error = "ValueError")
        /\ cf.parsed.ok => cf.parsed.value.base_url # <<>>

----------------------------------------------------------------------------
(* Properties of the orchestrator (Spec, PageSpec, TestSpec) *)

\* the step is a command: `last` becomes the record of the command that ran
Ran(op) == last'.seq = last.seq + 1 /\ last'.op = op

\* the project directory a command ran against
Project == fs[last.dir]

\* the persisted base URL of a project
PersistedBaseUrl(tree) == tree.files[<<"", f_config>>].doc.v["project"].v["base_url"].v

\* C1: init into a target directory that exists and is not empty, without force,
\* fails with DirectoryConflict and leaves the filesystem as it was.
C1_ConflictWritesNothing ==
    [][ (Ran("init") /\ ~last'.force /\ fs[last'.dir].exists /\ HasEntries(fs[last'.dir]))
          => (last'.outcome = "DirectoryConflict" /\ last'.exit # 0 /\ fs' = fs) ]_vars

C1_Witness ==
    /\ last.op = "init" /\ ~last.force /\ last.outcome = "DirectoryConflict"
    /\ IsFile(Project, <<"", f_config>>)
    /\ IsFile(Project, <<"", f_notes>>)

\* the line of a text that starts at position `start`: up to the next line feed
LineAt(text, start) ==
    LET feeds == { i \in start..Len(text) : text[i] = "\n" }
        stop == IF feeds = {} THEN Len(text) + 1
                ELSE CHOOSE i \in feeds : \A j \in feeds : i <= j
    IN  SubSeq(text, start, stop - 1)

\* how many lines of the text are equal to `line`
Occurrences(text, line) ==
    LET starts == {1} \cup { i + 1 : i \in { j \in DOMAIN text : text[j] = "\n" } }
    IN  Cardinality({ st \in starts : LineAt(text, st) = line })

\* the pages directories a page command with this driver writes into
PageDirs(driver) ==
    (IF driver \in {"selenium", "both"} THEN {"pages"} ELSE {})
    \cup (IF driver \in {"playwright", "both"} THEN {"pages_pw"} ELSE {})

ModuleSlug(name) == ReplaceChar(_slugify(name), "-", "_")

\* the import line of a page, as it stands in a package marker
MarkerLine(name) ==
    s_from \o ModuleSlug(name) \o s_page_import \o _class_name(name)

\* C2: add-page run again with the same arguments leaves the page file (and the
\* whole project) byte for byte as the run before left it, and after a run the
\* package marker of each pages directory written holds the import line of the
\* page exactly once.
C2_RepeatIsIdentical ==
    /\ [][ (Ran("add-page") /\ last'.again) => fs' = fs ]_vars
    /\ [](  (last.op = "add-page" /\ last.outcome = "ok") =>
               \A d \in PageDirs(last.driver) :
                   /\ IsFile(Project, PagePath(d, ModuleSlug(last.name)))
                   /\ IsFile(Project, <<d, f_init>>)
                   /\ Occurrences(Project.files[<<d, f_init>>].text, MarkerLine(last.name)) = 1 )

C2_Witness ==
    /\ last.op = "add-page" /\ last.again /\ last.outcome = "ok"
    /\ last.driver = "both"
    /\ last.name = s_LoginPageName

\* the page file a selenium add-page wrote
SeleniumPage == Project.files[PagePath("pages", ModuleSlug(last.name))]

NoUrlSeleniumPage ==
    last.op = "add-page" /\ last.outcome = "ok" /\ last.driver = "selenium" /\ ~last.url_opt

s_LoginPage == <<"L", "o", "g", "i", "n", "P", "a", "g", "e">>
s_login_page_slug == <<"l", "o", "g", "i", "n", "-", "p", "a", "g", "e">>

\* C3 as stated: a selenium add-page without --url declares the type name of the
\* page name and the URL base_url + "/" + slugify(name); for "Login Page" these are
\* LoginPage and base_url + "/login-page".
C3_UrlFromSlug ==
    NoUrlSeleniumPage =>
        /\ SeleniumPage.class_name = _class_name(last.name)
        /\ SeleniumPage.url = PersistedBaseUrl(Project) \o <<"/">> \o _slugify(last.name)
        /\ last.name = s_LoginPageName =>
             /\ SeleniumPage.class_name = s_LoginPage
             /\ SeleniumPage.url = PersistedBaseUrl(Project) \o <<"/">> \o s_login_page_slug

\* C3 amended: a selenium add-page without --url declares the type name of the page
\* name (LoginPage for "Login Page") and takes the path from the answer to the path
\* question, whose default is "/": the URL is base_url + answer when the answer
\* starts with "/", and the answer itself otherwise.
C3_UrlFromAnswer ==
    NoUrlSeleniumPage =>
        /\ SeleniumPage.class_name = _class_name(last.name)
        /\ last.name = s_LoginPageName => SeleniumPage.class_name = s_LoginPage
        /\ SeleniumPage.url = IF last.url # <<>> /\ last.url[1] = "/"
                              THEN PersistedBaseUrl(Project) \o last.url
                              ELSE last.url

C3_Witness ==
    /\ NoUrlSeleniumPage
    /\ last.name = s_LoginPageName
    /\ last.url = <<"/">>
    /\ SeleniumPage.class_name = s_LoginPage

\* the api_testing flag of the manifest is false, or the manifest holds no such flag
ApiTestingOff(tree) ==
    LET features == tree.files[<<"", f_config>>].doc.v["features"].v
    IN  "api_testing" \notin DOMAIN features \/ features["api_testing"] = PyBool(FALSE)

\* C4: add-test for an API test in a project whose manifest has api_testing off, or
\* no api_testing flag at all, fails with FeatureDisabled and writes nothing, whatever
\* the test name and --driver.
C4_ApiDisabledWritesNothing ==
    [][ (/\ Ran("add-test") /\ last'.test_type = "api"
         /\ IsFile(fs[last'.dir], <<"", f_config>>)
         /\ ApiTestingOff(fs[last'.dir]))
          => (last'.outcome = "FeatureDisabled" /\ last'.exit # 0 /\ fs' = fs) ]_vars

C4_Witness ==
    /\ last.op = "add-test" /\ last.outcome = "FeatureDisabled"
    /\ last.driver_opt = "playwright"
    /\ last.name = <<"x", " ", "a", "p", "i">>
    /\ "api_testing" \notin DOMAIN Project.files[<<"", f_config>>].doc.v["features"].v

\* C5: add-page and add-test run in a directory without a manifest fail with
\* ConfigNotFound and change nothing on disk.
C5_NoManifestWritesNothing ==
    [][ ((Ran("add-page") \/ Ran("add-test")) /\ ~IsFile(fs[last'.dir], <<"", f_config>>))
          => (last'.outcome = "ConfigNotFound" /\ last'.exit # 0 /\ fs' = fs) ]_vars

C5_Witness ==
    /\ last.op = "add-test" /\ last.outcome = "ConfigNotFound"
    /\ Project.exists /\ IsFile(Project, <<"", f_notes>>)

\* the directories directly under the project root
TopLevelDirs(tree) == tree.dirs \ {"tests/data"}

\* C6: after init for both into a fresh directory the top-level directories are
\* pages, tests, pages_pw and tests_pw and no other, and tests/data exists.
C6_BothMakesFourDirs ==
    [][ (Ran("init") /\ last'.outcome = "ok" /\ last'.driver = "both" /\ ~HasEntries(fs[last'.dir]))
          => /\ TopLevelDirs(fs'[last'.dir]) = {"pages", "tests", "pages_pw", "tests_pw"}
             /\ "tests/data" \in fs'[last'.dir].dirs ]_vars

C6_Witness ==
    /\ last.op = "init" /\ last.outcome = "ok" /\ last.driver = "both" /\ last.seq = 1
    /\ ~IsFile(Project, <<"", f_notes>>)
    /\ "tests/data" \in Project.dirs

----------------------------------------------------------------------------
(* Further properties of the name normaliser (NamesSpec, ModuleSpec) *)

\* the alphanumeric characters of a text, the first of each run in upper case and
\* the others in lower case
TokensJoined(text) ==
    LET marked == [i \in DOMAIN text |->
                     IF ~IsAlnum(text[i]) THEN ""
                     ELSE IF i = 1 \/ ~IsAlnum(text[i - 1]) THEN UpperChar(text[i])
                     ELSE LowerChar(text[i])]
    IN  SelectSeq(marked, LAMBDA c : c # "")

\* C11: the type name ends with "Page" for every input; it is exactly "Page" for the
\* empty text and for a text with no alphanumeric character; and "Page" is appended
\* to the concatenated tokens exactly when they do not end with "Page" already.
C11_PageSuffix ==
    Normalised =>
        /\ EndsWith(nm.cls, s_Page)
        /\ ~HasAlnum(nm.text) => nm.cls = s_Page
        /\ HasAlnum(nm.text) =>
             LET body == TokensJoined(nm.text)
             IN  nm.cls = IF EndsWith(body, s_Page) THEN body ELSE body \o s_Page

C11_Witness ==
    /\ nm.phase = "normalised"
    /\ nm.text = s_LoginPageName
    /\ nm.cls = s_LoginPage

\* a text with every hyphen replaced by an underscore
Underscored(s) == [i \in DOMAIN s |-> IF s[i] = "-" THEN "_" ELSE s[i]]

\* the files of a project directory whose names start with `stem`
NamedFrom(tree, d, stem) ==
    { path \in DOMAIN tree.files : path[1] = d /\ StartsWith(path[2], stem) }

\* C12: the identifier of a text is its slug with every hyphen replaced by an
\* underscore, and the files add-page and add-test write are named after the
\* identifier of the name given.
C12_IdentifierIsSlugUnderscored ==
    /\ Normalised => nm.ident = Underscored(nm.slug)
    /\ (last.op = "add-page" /\ last.outcome = "ok") =>
          \A d \in PageDirs(last.driver) :
              IsFile(Project, <<d, Underscored(_slugify(last.name)) \o s_page_py>>)
    /\ (last.op = "add-test" /\ last.outcome = "ok") =>
          \E d \in {"tests", "tests_pw"} :
              NamedFrom(Project, d, s_test_ \o Underscored(_slugify(last.name))) # {}

C12_Witness ==
    /\ last.op = "add-page" /\ last.outcome = "ok"
    /\ last.name = s_LoginPageName
    /\ IsFile(Project, <<"pages", <<"l", "o", "g", "i", "n", "_", "p", "a", "g", "e">> \o s_page_py>>)

----------------------------------------------------------------------------
(* Properties of what init writes (GenSpec) *)

InitDone == last.op = "init" /\ last.outcome = "ok"

\* the packages always required, those of a driver family, and those of a feature
AlwaysRequired == {"pytest>=7.4,<9", "structlog>=23.1,<25", "pyyaml>=6.0,<7"}

FamilyRequired(driver_type) ==
    (IF driver_type \in {"selenium", "both"} THEN {"selenium>=4.14,<5"} ELSE {})
    \cup (IF driver_type \in {"playwright", "both"}
          THEN {"playwright>=1.41,<2", "pytest-playwright>=0.4.4,<0.5"} ELSE {})

FeatureRequired(feature) ==
    CASE feature = "allure" -> {"allure-pytest>=2.13,<3"}
      [] feature = "parallel" -> {"pytest-xdist>=3.3,<4"}
      [] feature = "flaky_retry" -> {"pytest-retry>=1.5,<2"}
      [] feature = "api_testing" -> {"requests>=2.31,<3"}
      [] OTHER -> {}

RequirementLines == Project.files[<<"", f_requirements>>].lines

\* C13: the lines of requirements.txt are the union of the packages always required,
\* those of the driver families of driver_type and those of the enabled features,
\* in strictly ascending lexicographic order (sorted, none twice); so they are a
\* function of driver_type and features alone, whatever the name, the base URL or
\* the browsers.
C13_RequirementsSortedUnion ==
    InitDone =>
        /\ Range(RequirementLines)
             = AlwaysRequired \cup FamilyRequired(last.driver)
                 \cup UNION { FeatureRequired(f) : f \in last.features }
        /\ \A i \in 1..(Len(RequirementLines) - 1) :
              TextLess(LineText(RequirementLines[i]), LineText(RequirementLines[i + 1]))
        /\ \A i, j \in DOMAIN RequirementLines :
              (i < j) => \E a, b \in DOMAIN RequirementOrder :
                            /\ a < b
                            /\ RequirementOrder[a] = RequirementLines[i]
                            /\ RequirementOrder[b] = RequirementLines[j]

C13_Witness ==
    /\ InitDone
    /\ last.driver = "both"
    /\ last.features = {"parallel", "flaky_retry", "docker"}
    /\ last.url = s_slash
    /\ Len(RequirementLines) = 8

----------------------------------------------------------------------------
(* Exit status (Spec) *)

FailureOutcomes == {"DirectoryConflict", "ConfigNotFound", "FeatureDisabled", "FileNotFoundError"}

\* C14: a command that ends in DirectoryConflict, ConfigNotFound, FeatureDisabled or a
\* propagated file system error exits with a status other than zero, and a command
\* that ends in none of them exits with zero.
C14_ExitStatus ==
    last.seq > 0 =>
        /\ last.outcome \in FailureOutcomes \cup {"ok"}
        /\ last.outcome \in FailureOutcomes => last.exit # 0
        /\ last.outcome = "ok" => last.exit = 0

C14_Witness ==
    /\ last.op = "add-page" /\ last.outcome = "FileNotFoundError" /\ last.exit = 1
    /\ last.driver = "both"
    /\ IsFile(Project, PagePath("pages", ModuleSlug(last.name)))

----------------------------------------------------------------------------
(* Capitalisation of the type name (NamesSpec) *)

\* the alphanumeric characters of a text, the first of each run in upper case and
\* the others as they stand
TokensFirstUpper(text) ==
    LET marked == [i \in DOMAIN text |->
                     IF ~IsAlnum(text[i]) THEN ""
                     ELSE IF i = 1 \/ ~IsAlnum(text[i - 1]) THEN UpperChar(text[i])
                     ELSE text[i]]
    IN  SelectSeq(marked, LAMBDA c : c # "")

\* C15: the type name is made of the alphanumeric tokens of the name, each with its
\* first character in upper case and its other characters unchanged ("loginPage"
\* gives "LoginPage"), joined, with "Page" appended unless they end with it.
C15_FirstLetterOnly ==
    Normalised =>
        LET body == TokensFirstUpper(nm.text)
        IN  /\ body = <<>> => nm.cls = s_Page
            /\ body # <<>> => nm.cls = IF EndsWith(body, s_Page) THEN body ELSE body \o s_Page
            /\ nm.text = s_loginPage => nm.cls = s_LoginPage

----------------------------------------------------------------------------
(* Directories and artifacts of a fresh project (GenSpec) *)

\* the step is a successful init into a directory that was absent or empty
FreshInit == Ran("init") /\ last'.outcome = "ok" /\ ~HasEntries(fs[last'.dir])

SeleniumFamily(driver_type) == driver_type \in {"selenium", "both"}
PlaywrightFamily(driver_type) == driver_type \in {"playwright", "both"}

\* C16 as stated: in a fresh project pages and tests exist exactly for selenium and
\* both, pages_pw and tests_pw exactly for playwright and both, and tests/data exists
\* for every driver type.
C16_DirsIffFamily ==
    [][ FreshInit =>
          LET dirs == fs'[last'.dir].dirs
          IN  /\ \A d \in {"pages", "tests"} : d \in dirs <=> SeleniumFamily(last'.driver)
              /\ \A d \in {"pages_pw", "tests_pw"} : d \in dirs <=> PlaywrightFamily(last'.driver)
              /\ "tests/data" \in dirs ]_vars

\* C16 amended: in a fresh project pages exists exactly for selenium and both,
\* pages_pw and tests_pw exactly for playwright and both, and tests and tests/data
\* exist for every driver type; tests holds an __init__.py for playwright too.
C16_DirsByFamily ==
    [][ FreshInit =>
          LET dirs == fs'[last'.dir].dirs
          IN  /\ "pages" \in dirs <=> SeleniumFamily(last'.driver)
              /\ \A d \in {"pages_pw", "tests_pw"} : d \in dirs <=> PlaywrightFamily(last'.driver)
              /\ "tests" \in dirs /\ "tests/data" \in dirs
              /\ IsFile(fs'[last'.dir], <<"tests", f_init>>) ]_vars

C16_Witness ==
    /\ InitDone /\ last.driver = "playwright"
    /\ ~IsFile(Project, <<"", f_notes>>)
    /\ "tests" \in Project.dirs /\ "tests_pw" \in Project.dirs /\ "pages" \notin Project.dirs

\* the file at `path` of the project was rendered from template `tpl`
Rendered(path, tpl) == IsFile(Project, path) /\ Project.files[path].tpl = tpl

SeleniumArtifacts ==
    /\ Rendered(<<"pages", f_base_page>>, "selenium_base_page")
    /\ Rendered(<<"pages", f_example_page>>, "example_selenium_page")
    /\ Rendered(<<"tests", f_test_example>>, "example_selenium_test")

PlaywrightArtifacts ==
    /\ Rendered(<<"pages_pw", f_base_page>>, "playwright_base_page")
    /\ Rendered(<<"pages_pw", f_example_page>>, "example_playwright_page")
    /\ Rendered(<<"tests_pw", f_test_example_pw>>, "example_playwright_test")

\* some file of the project is the fixture file of the family
HasFixtureFile(tpl) == \E path \in DOMAIN Project.files : Rendered(path, tpl)

\* C17 as stated: after init the project holds, for each driver family of
\* driver_type, the base page object, the example page object, the example test and
\* a fixture file emitted for that family.
C17_FixturePerFamily ==
    InitDone =>
        /\ SeleniumFamily(last.driver) => (SeleniumArtifacts /\ HasFixtureFile("selenium_conftest"))
        /\ PlaywrightFamily(last.driver) => (PlaywrightArtifacts /\ HasFixtureFile("playwright_conftest"))

\* C17 amended: after init the project holds, for each driver family of driver_type,
\* the base page object, the example page object and the example test, and one
\* conftest.py: the selenium fixture file for selenium and for both, the playwright
\* fixture file for playwright alone.
C17_OneFixtureFile ==
    InitDone =>
        /\ SeleniumFamily(last.driver) => SeleniumArtifacts
        /\ PlaywrightFamily(last.driver) => PlaywrightArtifacts
        /\ Rendered(<<"", f_conftest>>,
                    IF last.driver = "playwright" THEN "playwright_conftest"
                    ELSE "selenium_conftest")
        /\ ~(HasFixtureFile("selenium_conftest") /\ HasFixtureFile("playwright_conftest"))

C17_Witness ==
    /\ InitDone /\ last.driver = "both"
    /\ PlaywrightArtifacts /\ SeleniumArtifacts
    /\ Rendered(<<"", f_conftest>>, "selenium_conftest")

----------------------------------------------------------------------------
(* The manifest init writes (GenSpec) *)

Manifest == Project.files[<<"", f_config>>].doc

\* C18: in the manifest init writes, project.base_url is not empty and does not end
\* with a slash, whatever base URL was given, one made of slashes only included.
C18_BaseUrlNonEmptyNoSlash ==
    InitDone =>
        LET base_url == PersistedBaseUrl(Project)
        IN  /\ base_url # <<>>
            /\ base_url[Len(base_url)] # "/"

PersistedBrowsers == Manifest.v["driver"].v["browsers"].v

\* C19: in the manifest init writes, driver.browsers is not empty; for playwright it
\* is chromium, firefox, webkit, and for selenium and both no empty selection is
\* persisted.
C19_BrowsersNonEmpty ==
    InitDone =>
        /\ PersistedBrowsers # <<>>
        /\ last.driver = "playwright" =>
              PersistedBrowsers = <<PyEnum("chromium"), PyEnum("firefox"), PyEnum("webkit")>>

----------------------------------------------------------------------------
(* init --force into a project (PageSpec) *)

\* the paths an init run for driver_type writes in a project with these directories
ArtifactSet(driver_type, dirs) ==
    { <<"", f>> : f \in {f_config, f_init, f_conftest, f_pytest_ini, f_requirements,
                         f_readme, f_gitignore} }
    \cup { <<d, f_init>> : d \in dirs \cap {"pages", "pages_pw", "tests", "tests_pw"} }
    \cup (IF SeleniumFamily(driver_type)
          THEN { <<"pages", f_base_page>>, <<"pages", f_example_page>>, <<"tests", f_test_example>> }
          ELSE {})
    \cup (IF PlaywrightFamily(driver_type)
          THEN { <<"pages_pw", f_base_page>>, <<"pages_pw", f_example_page>>,
                 <<"tests_pw", f_test_example_pw>> }
          ELSE {})

----------------------------------------------------------------------------
(* The URL of a page (UrlSpec) *)

\* the URL the claim resolves for a path against the persisted base URL
ResolvedUrl(base_url, path) ==
    IF path # <<>> /\ path[1] = "/" THEN base_url \o path ELSE path

\* the pages directories the last add-page wrote a page file into: those of its
\* driver when it succeeded, and pages alone when the write into a missing pages_pw
\* failed after it
WrittenPageDirs ==
    IF last.outcome = "ok" THEN PageDirs(last.driver)
    ELSE { d \in PageDirs(last.driver) :
             d = "pages" /\ "pages" \in Project.dirs /\ "pages_pw" \notin Project.dirs }

\* C21: add-page resolves the URL as the persisted base URL followed by the path
\* when the path starts with "/", and as the path itself otherwise, and every page
\* file the call writes, selenium or playwright, holds that URL.
C21_UrlResolved ==
    (last.op = "add-page" /\ last.outcome \in {"ok", "FileNotFoundError"}) =>
        \A d \in WrittenPageDirs :
            LET path == PagePath(d, ModuleSlug(last.name))
            IN  /\ IsFile(Project, path)
                /\ Project.files[path].url = ResolvedUrl(PersistedBaseUrl(Project), last.url)

C21_Witness ==
    /\ last.op = "add-page" /\ last.outcome = "ok" /\ last.driver = "both"
    /\ last.url_opt /\ last.url = s_login_path
    /\ Project.files[PagePath("pages_pw", ModuleSlug(last.name))].url = s_url \o s_login_path

----------------------------------------------------------------------------
(* Legal identifiers (NamesSpec) *)

\* letters, digits and underscores only, and no digit first
LegalIdentifier(s) ==
    /\ s # <<>>
    /\ \A i \in DOMAIN s : IsAlnum(s[i]) \/ s[i] = "_"
    /\ s[1] \notin Range(Digits)

\* C22: the directory name and module name (the identifier of the display name, and
\* the identifier followed by _page) and the type name derived from a display name
\* are legal identifiers, for a display name that starts with a digit too.
C22_LegalIdentifiers ==
    Normalised =>
        /\ LegalIdentifier(nm.ident)
        /\ LegalIdentifier(nm.ident \o <<"_", "p", "a", "g", "e">>)
        /\ LegalIdentifier(nm.cls)

----------------------------------------------------------------------------
(* Page files and package markers over a session (PageSpec) *)

\* the page files of a project that add-page wrote
AddedPages(tree) ==
    { path \in DOMAIN tree.files : tree.files[path].tpl \in {"selenium_page", "playwright_page"} }

\* the import line of the page file at `path`: from .<module> import <class>
ImportLineOf(tree, path) ==
    s_from \o SubSeq(path[2], 1, Len(path[2]) - Len(s_py))
        \o <<" ", "i", "m", "p", "o", "r", "t", " ">> \o tree.files[path].class_name

\* C23: after any sequence of init and add-page, every page file an add-page wrote
\* that still exists has its import line in the package marker of its directory.
C23_AddedPagesStayImported ==
    \A dir \in ProjectDirs :
        \A path \in AddedPages(fs[dir]) :
            /\ IsFile(fs[dir], <<path[1], f_init>>)
            /\ Occurrences(fs[dir].files[<<path[1], f_init>>].text, ImportLineOf(fs[dir], path)) >= 1

----------------------------------------------------------------------------
(* What add-page and add-test overwrite (Spec) *)

\* the files of a project that exist before and after a step and differ
Overwritten(before, after) ==
    { path \in DOMAIN before.files \cap DOMAIN after.files : after.files[path] # before.files[path] }

\* C24: add-page and add-test overwrite a file only if it came from the same
\* template (kind, test category and driver family): never a file init wrote,
\* never the file of an artifact of another kind or category.
C24_OverwritesOnlyOwnKind ==
    [][ (Ran("add-page") \/ Ran("add-test")) =>
          \A path \in Overwritten(fs[last'.dir], fs'[last'.dir]) :
              fs'[last'.dir].files[path].tpl = fs[last'.dir].files[path].tpl ]_vars

----------------------------------------------------------------------------
(* Failed add-page and add-test calls (Spec) *)

\* C25: a failing add-page or add-test (non-zero exit) leaves the project
\* directory as it was: no file written, no package marker changed, for every
\* driver argument.
C25_FailedAddWritesNothing ==
    [][ ((Ran("add-page") \/ Ran("add-test")) /\ last'.exit # 0) => fs' = fs ]_vars

----------------------------------------------------------------------------
(* The test-runner configuration and the tests generated (TestSpec) *)

\* the test files of a project, written by init or add-test
TestFiles(tree) ==
    { path \in DOMAIN tree.files :
        tree.files[path].tpl \in {"example_selenium_test", "example_playwright_test",
                                  "selenium_test", "playwright_test", "api_test"} }

\* the test directories of a driver type: tests for the selenium family, tests_pw
\* for the playwright family
FamilyTestDirs(driver_type) ==
    (IF SeleniumFamily(driver_type) THEN {"tests"} ELSE {})
        \cup (IF PlaywrightFamily(driver_type) THEN {"tests_pw"} ELSE {})

\* a project with its manifest and its pytest.ini
Configured(tree) == IsFile(tree, <<"", f_config>>) /\ IsFile(tree, <<"", f_pytest_ini>>)

\* C26: for every driver type, the testpaths of pytest.ini list every directory of
\* the project's driver family that holds a test written by init or add-test.
C26_TestDirsListed ==
    \A dir \in ProjectDirs :
        Configured(fs[dir]) =>
            \A path \in TestFiles(fs[dir]) :
                path[1] \in FamilyTestDirs(_load_config(fs[dir]).v["driver"].v["type"].v)
                    => path[1] \in Range(fs[dir].files[<<"", f_pytest_ini>>].testpaths)

\* C28: every marker applied by a test file that init or add-test generated is
\* declared in the markers list of pytest.ini, which runs with --strict-markers.
C28_MarkersDeclared ==
    \A dir \in ProjectDirs :
        Configured(fs[dir]) =>
            \A path \in TestFiles(fs[dir]) :
                fs[dir].files[path].markers \subseteq fs[dir].files[<<"", f_pytest_ini>>].markers

----------------------------------------------------------------------------
(* The base URL in what init writes (GenSpec) *)

\* the artifacts of the init run that carry the base URL: conftest.py, the example
\* pages, the playwright base page and README.md
BaseUrlArtifacts ==
    { path \in ArtifactSet(last.driver, Project.dirs) \cap DOMAIN Project.files :
        Project.files[path].tpl \in {"selenium_conftest", "playwright_conftest",
                                     "example_selenium_page", "example_playwright_page",
                                     "playwright_base_page", "readme"} }

\* C27: the base URL in every artifact an init run writes is the string the same
\* run persists as project.base_url, whatever base URL was given.
C27_OneBaseUrl ==
    InitDone => \A path \in BaseUrlArtifacts :
                    Project.files[path].base_url = PersistedBaseUrl(Project)

====
